---- MODULE Spec2Model ----
(***************************************************************************)
(* Model of automate/src/main.rs: the `buildings` command                  *)
(* (create_modded_buildings_file) and the `states` command                 *)
(* (create_modded_states_file_replace).                                    *)
(*                                                                         *)
(* Numbers are modelled with the width the program gives them: levels are  *)
(* u16, and the two roundings are carried out in IEEE-754 binary32 (f32).  *)
(* An f32 value is the pair <<n, e>> standing for n / 2^e with             *)
(* 0 <= n <= 2^24, which is exact for every positive normal f32 the        *)
(* program computes here.                                                  *)
(***************************************************************************)
EXTENDS Integers, Sequences, FiniteSets, TLC

(***************************************************************************)
(* Bounds of the model.                                                    *)
(***************************************************************************)
\* most owners of the single building of a SpecSplit input
MaxOwners == 4
\* largest sum of the owners' levels of a SpecSplit input
MaxTotal == 10
\* most entries of the region block of a Spec input
MaxEntries == 2
\* most owners of the building of a SpecOwners input, and the largest sum of
\* their levels
MixedMaxOwners == 3
MixedMaxTotal == 4
\* most tokens of the line of a SpecStates input
MaxLineLen == 4

(***************************************************************************)
(* u16 and f32 arithmetic.                                                 *)
(***************************************************************************)
U16Modulus == 65536
F32Precision == 16777216      \* 2^24: an f32 significand has 24 bits

\* the powers of two that fit a signed 32-bit integer, 2^0 to 2^30
PowersOfTwo ==
    <<1, 2, 4, 8, 16, 32, 64, 128, 256, 512, 1024, 2048, 4096, 8192,
      16384, 32768, 65536, 131072, 262144, 524288, 1048576, 2097152,
      4194304, 8388608, 16777216, 33554432, 67108864, 134217728,
      268435456, 536870912, 1073741824>>
Pow2(k) == PowersOfTwo[k + 1]

\* `x - y` on u16 in a build without overflow checks
WrappingSub(x, y) == (x - y + U16Modulus) % U16Modulus

\* number of low bits to drop so that n fits a 24-bit significand
RECURSIVE ExcessBits(_)
ExcessBits(n) == IF n < F32Precision THEN 0 ELSE 1 + ExcessBits(n \div 2)

\* the exact value n / 2^e (n >= 0) rounded to the nearest f32, ties to even
F32Nearest(n, e) ==
    LET k    == ExcessBits(n)
        q    == n \div Pow2(k)
        r    == n % Pow2(k)
        half == IF k = 0 THEN 0 ELSE Pow2(k - 1)
        up   == k > 0 /\ (r > half \/ (r = half /\ q % 2 = 1))
    IN  <<IF up THEN q + 1 ELSE q, e - k>>

\* <<a * 2^e, e>> for the largest e with (a * 2^e) \div b < 2^24, given
\* scaled = a * 2^e for some such e
RECURSIVE QuotientScale(_, _, _)
QuotientScale(scaled, b, e) ==
    IF (2 * scaled) \div b < F32Precision
    THEN QuotientScale(2 * scaled, b, e + 1)
    ELSE <<scaled, e>>

\* `a as f32 / b as f32` for integers a >= 0, b > 0: the correctly rounded
\* quotient
F32Div(a, b) ==
    IF a = 0 THEN <<0, 0>>
    ELSE LET s  == QuotientScale(a, b, 0)
             q  == s[1] \div b
             r  == s[1] % b
             up == 2 * r > b \/ (2 * r = b /\ q % 2 = 1)
         IN  <<IF up THEN q + 1 ELSE q, s[2]>>

\* the f32 nearest to 0.1 is 13421773 / 2^27
TenthSignificand == 13421773
TenthExponent == 27

\* `x - 0.1` in f32; the result may be negative (n < 0)
F32SubTenth(x) ==
    LET n == x[1]
        e == x[2]
        ce == IF e > TenthExponent THEN e ELSE TenthExponent
        d == n * Pow2(ce - e) - TenthSignificand * Pow2(ce - TenthExponent)
    IN  IF d >= 0 THEN F32Nearest(d, ce)
        ELSE LET m == F32Nearest(-d, ce) IN <<-m[1], m[2]>>

\* `m as f32 * p` for a u16 m and a non-negative f32 p
F32MulU16(m, p) == F32Nearest(m * p[1], p[2])

\* f32::round: to the nearest integer, halves away from zero
F32Round(x) ==
    LET n == x[1]
        e == x[2]
        a == IF n < 0 THEN -n ELSE n
        r == IF e = 0 THEN a ELSE (a + Pow2(e - 1)) \div Pow2(e)
    IN  IF n < 0 THEN -r ELSE r

\* `v as u16` for an integral f32 v: saturating
AsU16(v) == IF v < 0 THEN 0 ELSE IF v >= U16Modulus THEN U16Modulus - 1 ELSE v

\* faulty variant: the - 0.1 forgotten
ModdedBuildingLevels_NoNudge(total, r) == AsU16(F32Round(F32Div(total, r)))

\* line 160-161: (total as f32 / ratio as f32 - 0.1).round() as u16
ModdedBuildingLevels(total, r) ==
    AsU16(F32Round(F32SubTenth(F32Div(total, r))))

\* lines 179-180 and 185: (modded as f32 * (levels as f32 / total as f32))
\* .round() as u16
RawShare(modded, levels, total) ==
    AsU16(F32Round(F32MulU16(modded, F32Div(levels, total))))

(***************************************************************************)
(* The `buildings` command: create_modded_buildings_file.                  *)
(***************************************************************************)
VARIABLES
    overflow_checks,        \* the build profile: TRUE panics on u16 overflow
                            \* (debug), FALSE wraps (release)
    region_state_block,     \* the parsed entries of the region block (input)
    in_data,                \* the lines of a states file (input)
    pc,                     \* position of the running function
    next_entry,             \* iterator position in region_state_block/in_data
    building,               \* the create_building block being split
    original_owners,
    total_building_levels,
    modded_building_levels,
    modded_per_owner,
    modded_sum,
    i,
    out_file                \* what has been written to the output file

vars == <<overflow_checks, region_state_block, in_data, pc, next_entry,
          building, original_owners, total_building_levels,
          modded_building_levels, modded_per_owner, modded_sum, i, out_file>>

\* lines 90-101
building_ratios ==
    [b \in {"building_textile_mill", "building_furniture_manufactory",
            "building_glassworks", "building_rye_farm", "building_wheat_farm",
            "building_rice_farm", "building_millet_farm",
            "building_maize_farm", "building_livestock_ranch",
            "building_food_industry"} |->
        CASE b = "building_textile_mill" -> <<4, "building_tailoring_workshop">>
          [] b = "building_furniture_manufactory" ->
                 <<4, "building_luxury_furniture_manufactory">>
          [] b = "building_glassworks" -> <<4, "building_pottery_mill">>
          [] b = "building_livestock_ranch" -> <<2, "building_wool_farm">>
          [] b = "building_food_industry" -> <<4, "building_distillery">>
          [] OTHER -> <<6, "building_fruit_orchard">>]

\* `v.iter().sum::<u16>()`
RECURSIVE SumU16(_)
SumU16(s) == IF s = <<>> THEN 0 ELSE Head(s) + SumU16(Tail(s))

Reverse(s) == [k \in 1..Len(s) |-> s[Len(s) + 1 - k]]

\* lines 135-153: the `building` blocks of add_ownership in input order, then
\* its `country` blocks in input order, each as the map of its fields
BuildingOwner(block) ==
    [type |-> block.type, country |-> block.country,
     levels |-> block.levels, region |-> block.region]
CountryOwner(block) == [country |-> block.country, levels |-> block.levels]
IsBuildingBlock(block) == block.block = "building"
IsCountryBlock(block) == block.block = "country"
RECURSIVE MapBuildingOwner(_)
MapBuildingOwner(s) ==
    IF s = <<>> THEN <<>>
    ELSE <<BuildingOwner(Head(s))>> \o MapBuildingOwner(Tail(s))
RECURSIVE MapCountryOwner(_)
MapCountryOwner(s) ==
    IF s = <<>> THEN <<>>
    ELSE <<CountryOwner(Head(s))>> \o MapCountryOwner(Tail(s))
CollectOwners(add_ownership) ==
    MapBuildingOwner(SelectSeq(add_ownership, IsBuildingBlock))
        \o MapCountryOwner(SelectSeq(add_ownership, IsCountryBlock))

\* lines 154-157: each levels field parsed as u16 and summed (the sum stays
\* far below 2^16 for the inputs of this model)
LevelsOf(owners) == [k \in 1..Len(owners) |-> owners[k].levels]
TotalLevels(owners) == SumU16(LevelsOf(owners))

\* lines 172-174: sort_unstable_by_key leaves the owners ascending by levels
\* and promises nothing about the order of owners with equal levels: every
\* ascending arrangement is a possible result
SortUnstableByLevels(owners) ==
    {t \in {[k \in 1..Len(owners) |-> owners[p[k]]] :
                p \in Permutations(1..Len(owners))} :
        \A k \in 1..(Len(t) - 1) : t[k].levels <= t[k + 1].levels}

\* line 215/268: owner.contains_key("type")
OwnedByBuilding(owner) == "type" \in DOMAIN owner

\* lines 216-254: one owner block of the reduced original-type building
ReducedOwnerBlock(owner, lv) ==
    IF OwnedByBuilding(owner)
    THEN [block |-> "building", type |-> owner.type, country |-> owner.country,
          levels |-> lv, region |-> owner.region]
    ELSE [block |-> "country", country |-> owner.country, levels |-> lv]

\* faulty variant: the declared type is written as it is
ModdedOwnerBlock_DeclaredType(owner, lv, building_type, modded_building) ==
    IF OwnedByBuilding(owner)
    THEN [block |-> "building", type |-> owner.type,
          country |-> owner.country, levels |-> lv, region |-> owner.region]
    ELSE [block |-> "country", country |-> owner.country, levels |-> lv]

\* lines 268-302: one owner block of the target-type building
ModdedOwnerBlock(owner, lv, building_type, modded_building) ==
    IF OwnedByBuilding(owner)
    THEN [block |-> "building",
          type |-> IF owner.type = building_type THEN modded_building
                   ELSE owner.type,
          country |-> owner.country, levels |-> lv, region |-> owner.region]
    ELSE [block |-> "country", country |-> owner.country, levels |-> lv]

\* lines 214-255: the owner blocks of the reduced building, written for the
\* first n owners
ReducedOwners(owners, per_owner, n) ==
    [k \in 1..n |->
        ReducedOwnerBlock(owners[k],
                          WrappingSub(owners[k].levels, per_owner[k]))]

\* line 231-232/250-251: index of the first owner whose subtraction
\* `levels - modded_per_owner[i]` overflows, 0 when there is none
RECURSIVE FirstOverflow(_, _, _)
FirstOverflow(owners, per_owner, k) ==
    IF k > Len(owners) THEN 0
    ELSE IF owners[k].levels < per_owner[k] THEN k
    ELSE FirstOverflow(owners, per_owner, k + 1)

\* faulty variant: the loop writes every owner
ModdedCount_All(per_owner, k) == Len(per_owner)

\* lines 263-266: the loop over the owners stops at the first owner whose
\* share is 0
RECURSIVE ModdedCount(_, _)
ModdedCount(per_owner, k) ==
    IF k > Len(per_owner) \/ per_owner[k] = 0 THEN k - 1
    ELSE ModdedCount(per_owner, k + 1)

\* lines 263-303
ModdedOwners(owners, per_owner, building_type, modded_building) ==
    [k \in 1..ModdedCount(per_owner, 1) |->
        ModdedOwnerBlock(owners[k], per_owner[k], building_type,
                         modded_building)]

NoBuilding == [token |-> "none"]

\* the locals of one iteration of the loop over the entries, out of scope
ResetLocals ==
    /\ building' = NoBuilding
    /\ original_owners' = <<>>
    /\ total_building_levels' = 0
    /\ modded_building_levels' = 0
    /\ modded_per_owner' = <<>>
    /\ modded_sum' = 0
    /\ i' = 0

Locals == <<building, original_owners, total_building_levels,
            modded_building_levels, modded_per_owner, modded_sum, i>>
Inputs == <<overflow_checks, region_state_block, in_data>>

CurrentEntry == region_state_block[next_entry]

\* lines 103-116: the file is created and the three opening lines written
OpenBuildingsFile ==
    /\ pc = "buildings"
    /\ out_file' = <<[item |-> "open", name |-> "BUILDINGS"],
                     [item |-> "open", name |-> "state"],
                     [item |-> "open", name |-> "region_state"]>>
    /\ pc' = "entries"
    /\ next_entry' = 1
    /\ UNCHANGED <<Inputs, Locals>>

\* faulty variant: an entry that is no create_building is copied to the output
SkipToken_PassThrough ==
    /\ pc = "entries"
    /\ next_entry <= Len(region_state_block)
    /\ CurrentEntry.token # "create_building"
    /\ next_entry' = next_entry + 1
    /\ out_file' = Append(out_file, [item |-> CurrentEntry.token])
    /\ UNCHANGED <<Inputs, Locals, pc>>

\* lines 122-124: an entry that is no create_building
SkipToken ==
    /\ pc = "entries"
    /\ next_entry <= Len(region_state_block)
    /\ CurrentEntry.token # "create_building"
    /\ next_entry' = next_entry + 1
    /\ UNCHANGED <<Inputs, Locals, pc, out_file>>

\* lines 127-131: a building whose type is no key of building_ratios
SkipType ==
    /\ pc = "entries"
    /\ next_entry <= Len(region_state_block)
    /\ CurrentEntry.token = "create_building"
    /\ CurrentEntry.building \notin DOMAIN building_ratios
    /\ next_entry' = next_entry + 1
    /\ UNCHANGED <<Inputs, Locals, pc, out_file>>

\* line 162: the building is split when its share is not 0
MinimumLevels(modded) == modded # 0

\* lines 134-164: a building with too few levels for a split
SkipLevels ==
    /\ pc = "entries"
    /\ next_entry <= Len(region_state_block)
    /\ CurrentEntry.token = "create_building"
    /\ CurrentEntry.building \in DOMAIN building_ratios
    /\ LET owners == CollectOwners(CurrentEntry.add_ownership)
           ratio  == building_ratios[CurrentEntry.building][1]
       IN  ~MinimumLevels(ModdedBuildingLevels(TotalLevels(owners), ratio))
    /\ next_entry' = next_entry + 1
    /\ UNCHANGED <<Inputs, Locals, pc, out_file>>

\* faulty variant: the sorted owners are not reversed
SortedOwners_Ascending(owners) == SortUnstableByLevels(owners)

\* lines 172-175: the owners sorted by levels and reversed
SortedOwners(owners) == {Reverse(t) : t \in SortUnstableByLevels(owners)}

\* lines 176-186
RawShares(owners, modded, total) ==
    [k \in 1..Len(owners) |-> RawShare(modded, owners[k].levels, total)]

\* lines 134-189: the building is split: the remove_building line is
\* written, the owners are sorted and each gets its rounded share
SplitBuilding ==
    /\ pc = "entries"
    /\ next_entry <= Len(region_state_block)
    /\ CurrentEntry.token = "create_building"
    /\ CurrentEntry.building \in DOMAIN building_ratios
    /\ LET owners == CollectOwners(CurrentEntry.add_ownership)
           total  == TotalLevels(owners)
           ratio  == building_ratios[CurrentEntry.building][1]
           modded == ModdedBuildingLevels(total, ratio)
       IN  /\ MinimumLevels(modded)
           /\ building' = CurrentEntry
           /\ total_building_levels' = total
           /\ modded_building_levels' = modded
           /\ out_file' = Append(out_file,
                  [item |-> "remove_building",
                   building |-> CurrentEntry.building])
           /\ \E sorted \in SortedOwners(owners) :
                /\ original_owners' = sorted
                /\ modded_per_owner' = RawShares(sorted, modded, total)
                /\ modded_sum' = SumU16(RawShares(sorted, modded, total))
                                    % U16Modulus
           /\ i' = 0
    /\ pc' = "fixup"
    /\ UNCHANGED <<Inputs, next_entry>>

\* line 192: the index the first loop takes a level from
RemoveIndex(len, n) == len - 1 - n
\* faulty variant: the second loop starts from the back
AddIndex_Back(len, n) == len - 1 - n
\* line 198: the index the second loop gives a level to
AddIndex(len, n) == n

\* lines 190-195: one round of the first loop. Indices of the program start
\* at 0, those of the model at 1.
RemoveStep ==
    /\ pc = "fixup"
    /\ modded_sum > modded_building_levels
    /\ LET k == RemoveIndex(Len(original_owners), i) + 1
       IN  IF modded_per_owner[k] = 0 /\ overflow_checks
           THEN \* attempt to subtract with overflow
                /\ pc' = "panicked"
                /\ UNCHANGED <<modded_per_owner, i, modded_sum>>
           ELSE /\ modded_per_owner' =
                      [modded_per_owner EXCEPT ![k] = WrappingSub(@, 1)]
                /\ i' = (i + 1) % Len(original_owners)
                /\ modded_sum' = modded_sum - 1
                /\ pc' = pc
    /\ UNCHANGED <<Inputs, next_entry, building, original_owners,
                   total_building_levels, modded_building_levels, out_file>>

\* lines 196-201: one round of the second loop
AddStep ==
    /\ pc = "fixup"
    /\ modded_sum < modded_building_levels
    /\ LET k == AddIndex(Len(original_owners), i) + 1
       IN  modded_per_owner' =
               [modded_per_owner EXCEPT ![k] = (@ + 1) % U16Modulus]
    /\ i' = (i + 1) % Len(original_owners)
    /\ modded_sum' = modded_sum + 1
    /\ UNCHANGED <<Inputs, pc, next_entry, building, original_owners,
                   total_building_levels, modded_building_levels, out_file>>

\* lines 202-310: both loops are over (the test of line 202 is the negation
\* of their two conditions and never true); the reduced building of the
\* original type and the building of the target type are written
WriteBuildings ==
    /\ pc = "fixup"
    /\ modded_sum = modded_building_levels
    /\ LET bad == FirstOverflow(original_owners, modded_per_owner, 1)
           modded_building == building_ratios[building.building][2]
       IN  IF bad # 0 /\ overflow_checks
           THEN \* attempt to subtract with overflow: the block is cut
                \* short at that owner
                /\ out_file' = Append(out_file,
                       [item |-> "create_building",
                        building |-> building.building,
                        add_ownership |->
                            ReducedOwners(original_owners, modded_per_owner,
                                          bad - 1),
                        reserves |-> "cut"])
                /\ pc' = "panicked"
                /\ UNCHANGED <<next_entry, Locals>>
           ELSE /\ out_file' = out_file \o
                       <<[item |-> "create_building",
                          building |-> building.building,
                          add_ownership |->
                              ReducedOwners(original_owners, modded_per_owner,
                                            Len(original_owners)),
                          reserves |-> "none"],
                         [item |-> "create_building",
                          building |-> modded_building,
                          add_ownership |->
                              ModdedOwners(original_owners, modded_per_owner,
                                           building.building, modded_building),
                          reserves |-> building.reserves]>>
                /\ pc' = "entries"
                /\ next_entry' = next_entry + 1
                /\ ResetLocals
    /\ UNCHANGED Inputs

\* lines 311-320: the entries are exhausted; the three closing lines
CloseBuildingsFile ==
    /\ pc = "entries"
    /\ next_entry > Len(region_state_block)
    /\ out_file' = out_file \o
           <<[item |-> "close"], [item |-> "close"], [item |-> "close"]>>
    /\ pc' = "done"
    /\ UNCHANGED <<Inputs, next_entry, Locals>>

Next ==
    \/ OpenBuildingsFile
    \/ SkipToken
    \/ SkipType
    \/ SkipLevels
    \/ SplitBuilding
    \/ RemoveStep
    \/ AddStep
    \/ WriteBuildings
    \/ CloseBuildingsFile

(***************************************************************************)
(* The `states` command: create_modded_states_file_replace.  A line is the *)
(* sequence of its tokens.                                                 *)
(***************************************************************************)
BOM_CHAR == "BOM"
Space == " "
Marker == "arable_resources"
Brace == "}"
Ranches == "bg_livestock_ranches"

\* lines 394-400
FARM_TYPES ==
    {"building_rice_farm", "building_wheat_farm", "building_maize_farm",
     "building_millet_farm", "building_rye_farm"}

\* str::trim_start_matches(c)
RECURSIVE TrimStartMatches(_, _)
TrimStartMatches(line, c) ==
    IF line # <<>> /\ Head(line) = c THEN TrimStartMatches(Tail(line), c)
    ELSE line

\* str::trim().starts_with(t)
TrimmedStartsWith(line, t) ==
    LET rest == TrimStartMatches(line, Space)
    IN  rest # <<>> /\ Head(rest) = t

\* str::contains(t)
Contains(line, t) == \E k \in 1..Len(line) : line[k] = t

\* str::replace(from, to): every occurrence of `from` is replaced
RECURSIVE Replace(_, _, _)
Replace(line, from, to) ==
    IF line = <<>> THEN <<>>
    ELSE (IF Head(line) = from THEN to ELSE <<Head(line)>>)
             \o Replace(Tail(line), from, to)

\* lines 420-425
WithOrchard(line) ==
    IF \E farm_type \in FARM_TYPES : Contains(line, farm_type)
    THEN Replace(line, Brace, <<"\"bg_fruit_orchard\"", Space, Brace>>)
    ELSE line

\* lines 426-428
WithWoolFarm(line) ==
    IF Contains(line, Ranches)
    THEN Replace(line, Brace, <<"\"bg_wool_farm\"", Space, Brace>>)
    ELSE line

\* lines 419-428
ModifiedLine(line) == WithWoolFarm(WithOrchard(line))

\* lines 411-414: the file is created and the byte order mark written
OpenStatesFile ==
    /\ pc = "states"
    /\ out_file' = <<<<BOM_CHAR>>>>
    /\ next_entry' = 1
    /\ pc' = "lines"
    /\ UNCHANGED <<Inputs, Locals>>

\* lines 416-429: a line of arable resources
WriteModifiedLine ==
    /\ pc = "lines"
    /\ next_entry <= Len(in_data)
    /\ LET line == TrimStartMatches(in_data[next_entry], BOM_CHAR)
       IN  /\ TrimmedStartsWith(line, Marker)
           /\ out_file' = Append(out_file, ModifiedLine(line))
    /\ next_entry' = next_entry + 1
    /\ UNCHANGED <<Inputs, Locals, pc>>

\* lines 416-418, 430-432: any other line
WriteLine ==
    /\ pc = "lines"
    /\ next_entry <= Len(in_data)
    /\ LET line == TrimStartMatches(in_data[next_entry], BOM_CHAR)
       IN  /\ ~TrimmedStartsWith(line, Marker)
           /\ out_file' = Append(out_file, line)
    /\ next_entry' = next_entry + 1
    /\ UNCHANGED <<Inputs, Locals, pc>>

\* lines 433-437
CloseStatesFile ==
    /\ pc = "lines"
    /\ next_entry > Len(in_data)
    /\ pc' = "done"
    /\ UNCHANGED <<Inputs, Locals, next_entry, out_file>>

NextStates ==
    \/ OpenStatesFile
    \/ WriteModifiedLine
    \/ WriteLine
    \/ CloseStatesFile

(***************************************************************************)
(* Inputs.                                                                 *)
(***************************************************************************)
\* one building type of each ratio of building_ratios, and one that is no
\* key of it
BuildingTypes ==
    {"building_livestock_ranch", "building_textile_mill",
     "building_rye_farm", "building_port"}

\* the type of a sub-building owner that is not the building's own type
OtherOwnerType == "building_manor_house"

\* an entry of a region block that is no create_building
OtherEntry == [token |-> "create_pop"]

CreateBuilding(building_type, add_ownership) ==
    [token |-> "create_building", building |-> building_type,
     add_ownership |-> add_ownership, reserves |-> 1]

CountryBlock(k, lv) == [block |-> "country", country |-> k, levels |-> lv]
BuildingBlock(k, lv, t) ==
    [block |-> "building", type |-> t, country |-> k, levels |-> lv,
     region |-> "STATE"]

\* add_ownership blocks of up to MaxOwners countries whose levels sum to
\* MaxTotal at most; the k-th block names country k
CountryOwnerships ==
    UNION {{[k \in 1..n |-> CountryBlock(k, lv[k])] :
               lv \in {f \in [1..n -> 0..MaxTotal] : SumU16(f) <= MaxTotal}} :
           n \in 0..MaxOwners}

\* add_ownership blocks of up to MixedMaxOwners owners, sub-buildings (of
\* the building's own type or another) and countries in any order, each of
\* one level or more, whose levels sum to MixedMaxTotal at most
MixedOwnerships(building_type) ==
    UNION {{o \in [1..n -> {CountryBlock(0, lv) : lv \in 1..MixedMaxTotal}
                           \cup {BuildingBlock(0, lv, t) :
                                   lv \in 1..MixedMaxTotal,
                                   t \in {building_type, OtherOwnerType}}] :
               SumU16([k \in 1..n |-> o[k].levels]) <= MixedMaxTotal} :
           n \in 0..MixedMaxOwners}

\* the k-th block of an add_ownership names country k
Numbered(add_ownership) ==
    [k \in 1..Len(add_ownership) |->
        [add_ownership[k] EXCEPT !.country = k]]

InitCommon ==
    /\ overflow_checks \in BOOLEAN
    /\ next_entry = 0
    /\ building = NoBuilding
    /\ original_owners = <<>>
    /\ total_building_levels = 0
    /\ modded_building_levels = 0
    /\ modded_per_owner = <<>>
    /\ modded_sum = 0
    /\ i = 0
    /\ out_file = <<>>

\* a region block of one entry whose owners are countries
InitSplit ==
    /\ InitCommon
    /\ pc = "buildings"
    /\ in_data = <<>>
    /\ region_state_block \in
           {<<OtherEntry>>}
           \cup {<<CreateBuilding(t, o)>> :
                    t \in BuildingTypes, o \in CountryOwnerships}

\* a region block of one entry whose owners are sub-buildings and countries
InitOwners ==
    /\ InitCommon
    /\ pc = "buildings"
    /\ in_data = <<>>
    /\ region_state_block \in
           {<<OtherEntry>>}
           \cup UNION {{<<CreateBuilding(t, Numbered(o))>> :
                           o \in MixedOwnerships(t)} : t \in BuildingTypes}

\* entries of each kind the function tells apart: no create_building, a type
\* that is no key, too few levels, splits with and without a fix-up, and a
\* split whose first loop reaches an owner with no level left to take
SampleEntries ==
    {OtherEntry,
     CreateBuilding("building_port", <<CountryBlock(1, 5)>>),
     CreateBuilding("building_rye_farm", <<CountryBlock(1, 3)>>),
     CreateBuilding("building_textile_mill", <<CountryBlock(1, 0)>>),
     CreateBuilding("building_textile_mill",
                    <<CountryBlock(1, 3), CountryBlock(2, 7)>>),
     CreateBuilding("building_livestock_ranch",
                    <<BuildingBlock(1, 1, "building_livestock_ranch"),
                      CountryBlock(2, 1)>>),
     CreateBuilding("building_livestock_ranch",
                    <<CountryBlock(1, 1),
                      BuildingBlock(2, 3, OtherOwnerType),
                      CountryBlock(3, 5)>>),
     CreateBuilding("building_textile_mill",
                    <<CountryBlock(1, 2), CountryBlock(2, 2),
                      CountryBlock(3, 2), CountryBlock(4, 1)>>)}

\* a region block of up to MaxEntries entries
InitFile ==
    /\ InitCommon
    /\ pc = "buildings"
    /\ in_data = <<>>
    /\ region_state_block \in
           UNION {[1..n -> SampleEntries] : n \in 0..MaxEntries}

LineTokens ==
    {BOM_CHAR, Space, Marker, Brace, "building_rye_farm", Ranches}

\* a states file of one line of up to MaxLineLen tokens
InitStates ==
    /\ InitCommon
    /\ pc = "states"
    /\ region_state_block = <<>>
    /\ in_data \in
           {<<line>> : line \in UNION {[1..n -> LineTokens] :
                                          n \in 0..MaxLineLen}}

Spec == InitFile /\ [][Next]_vars
SpecSplit == InitSplit /\ [][Next]_vars
SpecOwners == InitOwners /\ [][Next]_vars
SpecStates == InitStates /\ [][NextStates]_vars

(***************************************************************************)
(* Properties.                                                             *)
(***************************************************************************)
\* round(total / ratio - 0.1) in exact arithmetic, halves away from zero:
\* the floor of total/ratio - 1/10 + 1/2
ExactModdedLevels(total, r) == (10 * total + 4 * r) \div (10 * r)

EntryTotal(entry) ==
    SumU16([k \in 1..Len(entry.add_ownership) |->
               entry.add_ownership[k].levels])

\* the entry is a create_building whose type is a key of the conversion
\* table and whose share round(T / ratio - 0.1) is 1 or more
SplitExpected(entry) ==
    /\ entry.token = "create_building"
    /\ entry.building \in DOMAIN building_ratios
    /\ ExactModdedLevels(EntryTotal(entry),
                         building_ratios[entry.building][1]) >= 1

TargetTypes == {building_ratios[b][2] : b \in DOMAIN building_ratios}

BlockLevels(item) ==
    SumU16([k \in 1..Len(item.add_ownership) |->
               item.add_ownership[k].levels])

IsCreate(item) == item.item = "create_building"
IsTargetBlock(item) == IsCreate(item) /\ item.building \in TargetTypes

\* the single entry of a SpecSplit or SpecOwners input
TheEntry == region_state_block[1]

\* the block of the input's add_ownership that names the country
InputBlock(country) ==
    CHOOSE b \in {TheEntry.add_ownership[k] :
                     k \in 1..Len(TheEntry.add_ownership)} :
        b.country = country

\* the function returned and the single entry was split: the output holds
\* the removal (4), the reduced block (5) and the target block (6)
SplitWritten == pc = "done" /\ Len(out_file) = 9

FixupOver == pc = "fixup" /\ modded_sum = modded_building_levels

\* C1 (as claimed): once both fix-up loops are over, the shares left in
\* modded_per_owner sum to modded_building_levels, which is at most the total
\* of the owners' levels.
C1_Conservation ==
    FixupOver =>
        /\ SumU16(modded_per_owner) = modded_building_levels
        /\ modded_building_levels <= total_building_levels

\* C2 (as claimed): at every step of the fix-up loops and when the blocks are
\* written, no share has gone below zero (the function has not panicked on a
\* u16 subtraction, and no share has wrapped around) and no owner's share
\* exceeds the owner's levels.
C2_NonNegativity ==
    /\ pc # "panicked"
    /\ pc = "fixup" =>
          \A k \in 1..Len(original_owners) :
              modded_per_owner[k] <= original_owners[k].levels
    /\ \A j \in 1..Len(out_file) :
          IsCreate(out_file[j]) =>
              \A k \in 1..Len(out_file[j].add_ownership) :
                  LET b == out_file[j].add_ownership[k]
                  IN  b.levels <= InputBlock(b.country).levels

\* C3 (as claimed): for a split building the levels written in the reduced
\* block plus the levels written in the target block are the total of the
\* owners' levels read from the input, and the target block's levels sum to
\* the building's share.
C3_TotalPreserved ==
    SplitWritten =>
        /\ BlockLevels(out_file[5]) + BlockLevels(out_file[6])
               = EntryTotal(TheEntry)
        /\ BlockLevels(out_file[6])
               = ExactModdedLevels(EntryTotal(TheEntry),
                                   building_ratios[TheEntry.building][1])

\* what the claim expects the region block of the output to hold for one
\* entry: kind of line and building type
ExpectedShape(entry) ==
    IF SplitExpected(entry)
    THEN <<<<"remove_building", entry.building>>,
           <<"create_building", entry.building>>,
           <<"create_building", building_ratios[entry.building][2]>>>>
    ELSE <<>>

RECURSIVE ExpectedShapes(_)
ExpectedShapes(entries) ==
    IF entries = <<>> THEN <<>>
    ELSE ExpectedShape(Head(entries)) \o ExpectedShapes(Tail(entries))

\* the lines and blocks written between the opening and the closing lines
RegionItems == SubSeq(out_file, 4, Len(out_file) - 3)
ItemShape(item) == <<item.item, item.building>>

\* C4: when the function returns, the region block of the output holds, for
\* each entry in input order, the removal line, the reduced block of the
\* original type and the block of the target type, in that order, if the
\* entry is a create_building of a type in the conversion table with
\* round(T / ratio - 0.1) >= 1, and nothing for any other entry.
C4_SplitCondition ==
    pc = "done" =>
        [k \in 1..Len(RegionItems) |-> ItemShape(RegionItems[k])]
            = ExpectedShapes(region_state_block)

\* C4 witness: a file with a split entry and an entry of a table type with
\* too few levels has been written.
C4_Witness ==
    /\ pc = "done"
    /\ \E k \in 1..Len(region_state_block) :
          SplitExpected(region_state_block[k])
    /\ \E k \in 1..Len(region_state_block) :
          /\ region_state_block[k].token = "create_building"
          /\ region_state_block[k].building \in DOMAIN building_ratios
          /\ ~SplitExpected(region_state_block[k])

\* an entry as it would stand in the output had it been copied
EntryAsItem(entry) ==
    IF entry.token = "create_building"
    THEN [item |-> "create_building", building |-> entry.building,
          add_ownership |-> entry.add_ownership, reserves |-> entry.reserves]
    ELSE [item |-> entry.token]

AppearsInOutput(entry) ==
    \E j \in 1..Len(out_file) : out_file[j] = EntryAsItem(entry)

\* C5 (as claimed): when the function returns, every entry of the region
\* block that is not split stands unchanged in the output.
C5_PassThrough ==
    pc = "done" =>
        \A k \in 1..Len(region_state_block) :
            ~SplitExpected(region_state_block[k])
                => AppearsInOutput(region_state_block[k])

EmptyRegionFile ==
    <<[item |-> "open", name |-> "BUILDINGS"],
      [item |-> "open", name |-> "state"],
      [item |-> "open", name |-> "region_state"],
      [item |-> "close"], [item |-> "close"], [item |-> "close"]>>

\* C5 (amended): when the function returns, no entry that is not split
\* stands in the output, the output holds three items for each split entry
\* and none for any other, and a region block of entries that are not split
\* is written as an empty block.
C5_UnsplitOmitted ==
    pc = "done" =>
        /\ \A k \in 1..Len(region_state_block) :
              ~SplitExpected(region_state_block[k])
                  => ~AppearsInOutput(region_state_block[k])
        /\ Len(RegionItems)
              = 3 * Cardinality({k \in 1..Len(region_state_block) :
                                    SplitExpected(region_state_block[k])})
        /\ (\A k \in 1..Len(region_state_block) :
               ~SplitExpected(region_state_block[k]))
              => out_file = EmptyRegionFile

\* C5 witness: a file of two entries, neither split, one of them no
\* create_building, has been written.
C5_Witness ==
    /\ pc = "done"
    /\ Len(region_state_block) = 2
    /\ \A k \in 1..2 : ~SplitExpected(region_state_block[k])
    /\ \E k \in 1..2 : region_state_block[k].token # "create_building"
    /\ \E k \in 1..2 : region_state_block[k].token = "create_building"

\* C6: no owner block written in a target-type building has levels 0.
C6_OmissionRule ==
    \A j \in 1..Len(out_file) :
        IsTargetBlock(out_file[j]) =>
            \A k \in 1..Len(out_file[j].add_ownership) :
                out_file[j].add_ownership[k].levels >= 1

\* C6 witness: a split has been written in which an owner's share was 0, so
\* the target block has fewer owners than the reduced block.
C6_Witness ==
    /\ SplitWritten
    /\ Len(out_file[6].add_ownership) < Len(out_file[5].add_ownership)

\* C7: in the target block the type written for a sub-building owner is the
\* target type when the owner's declared type is the split building's type
\* and the declared type otherwise; in the reduced block it is the declared
\* type.
C7_SelfMigration ==
    SplitWritten =>
        /\ \A k \in 1..Len(out_file[6].add_ownership) :
              LET b  == out_file[6].add_ownership[k]
                  in == InputBlock(b.country)
              IN  /\ b.block = in.block
                  /\ b.block = "building" =>
                        b.type = IF in.type = TheEntry.building
                                 THEN building_ratios[TheEntry.building][2]
                                 ELSE in.type
        /\ \A k \in 1..Len(out_file[5].add_ownership) :
              LET b  == out_file[5].add_ownership[k]
                  in == InputBlock(b.country)
              IN  /\ b.block = in.block
                  /\ b.block = "building" => b.type = in.type

\* C7 witness: a split has been written whose target block holds a
\* sub-building owner of the building's own type and one of another type.
C7_Witness ==
    /\ SplitWritten
    /\ \E k \in 1..Len(out_file[6].add_ownership) :
          /\ out_file[6].add_ownership[k].block = "building"
          /\ InputBlock(out_file[6].add_ownership[k].country).type
                = TheEntry.building
    /\ \E k \in 1..Len(out_file[6].add_ownership) :
          /\ out_file[6].add_ownership[k].block = "building"
          /\ InputBlock(out_file[6].add_ownership[k].country).type
                = OtherOwnerType

\* the index of the last closing brace of a line, 0 when it has none
RECURSIVE LastBrace(_, _)
LastBrace(line, k) ==
    IF k = 0 \/ line[k] = Brace THEN k ELSE LastBrace(line, k - 1)

\* the quoted tokens the claim expects before the closing brace
ExtraTokens(line) ==
    (IF \E farm_type \in FARM_TYPES : Contains(line, farm_type)
     THEN <<"\"bg_fruit_orchard\"", Space>> ELSE <<>>)
    \o (IF Contains(line, Ranches)
        THEN <<"\"bg_wool_farm\"", Space>> ELSE <<>>)

\* the line with the tokens inserted before its last closing brace only
InsertedBeforeLastBrace(line) ==
    LET k == LastBrace(line, Len(line))
    IN  IF k = 0 THEN line
        ELSE SubSeq(line, 1, k - 1) \o ExtraTokens(line)
                 \o SubSeq(line, k, Len(line))

\* C8 (as claimed): a line that starts with the marker is written with the
\* extra quoted token inserted before its last closing brace and every other
\* token, an earlier closing brace included, unchanged; any other line is
\* written unchanged.
C8_LastBraceOnly ==
    pc = "done" =>
        LET line == TrimStartMatches(in_data[1], BOM_CHAR)
        IN  out_file[2] = IF TrimmedStartsWith(line, Marker)
                          THEN InsertedBeforeLastBrace(line)
                          ELSE line

\* the sum of the rounded shares before any fix-up
RawSum ==
    SumU16(RawShares(original_owners, modded_building_levels,
                     total_building_levels))

\* the shares change at index k (from 1) alone, by one unit
OnlyChanged(k, new) ==
    \A n \in 1..Len(original_owners) :
        modded_per_owner'[n] = IF n = k THEN new ELSE modded_per_owner[n]

\* a round of a fix-up loop: the r-th removal (r from 0) takes one unit from
\* the owner r places before the last, cyclically; the a-th addition gives
\* one unit to the owner a places after the first, cyclically
FixupDirection ==
    (pc = "fixup" /\ pc' = "fixup") =>
        LET len == Len(original_owners)
        IN  IF modded_sum > modded_building_levels
            THEN LET r == RawSum - modded_sum
                     k == len - (r % len)
                 IN  /\ modded_sum' = modded_sum - 1
                     /\ OnlyChanged(k, WrappingSub(modded_per_owner[k], 1))
            ELSE LET a == modded_sum - RawSum
                     k == (a % len) + 1
                 IN  /\ modded_sum < modded_building_levels
                     /\ modded_sum' = modded_sum + 1
                     /\ OnlyChanged(k, modded_per_owner[k] + 1)

\* T = 9, ratio 2, owners [5, 3, 1]: the shares end as [3, 1, 0]
FixupExample ==
    (/\ FixupOver
     /\ building.building = "building_livestock_ranch"
     /\ LevelsOf(original_owners) = <<5, 3, 1>>)
        => modded_per_owner = <<3, 1, 0>>

\* T = 10, ratio 4, owners [7, 3]: the shares are [1, 1] with no fix-up and
\* the reduced levels [6, 2]
NoFixupExample ==
    /\ (/\ pc = "fixup"
        /\ building.building = "building_textile_mill"
        /\ LevelsOf(original_owners) = <<7, 3>>)
          => (modded_per_owner = <<1, 1>> /\ FixupOver)
    /\ (/\ SplitWritten
        /\ TheEntry.building = "building_textile_mill"
        /\ LevelsOf(TheEntry.add_ownership) = <<7, 3>>)
          => /\ LevelsOf(out_file[5].add_ownership) = <<6, 2>>
             /\ LevelsOf(out_file[6].add_ownership) = <<1, 1>>

\* C9: a fix-up adds one unit per owner from index 0 forward, cyclically,
\* when the rounded shares sum to less than the building's share, and removes
\* one unit per owner from the last index backward, cyclically, when they
\* sum to more; owners [5, 3, 1] at ratio 2 end with shares [3, 1, 0] and
\* owners [7, 3] at ratio 4 with shares [1, 1] and reduced levels [6, 2].
C9_FixupDirection ==
    /\ [][FixupDirection]_vars
    /\ []FixupExample
    /\ []NoFixupExample

\* C9 witness: the fix-up of owners [5, 3, 1] at ratio 2 has added its unit.
C9_Witness ==
    /\ FixupOver
    /\ i = 1
    /\ building.building = "building_livestock_ranch"
    /\ LevelsOf(original_owners) = <<5, 3, 1>>
    /\ modded_per_owner = <<3, 1, 0>>

\* the owners as read: sub-building owners in input order, then country
\* owners in input order
Collected == CollectOwners(building.add_ownership)

PositionIn(owners, owner) ==
    CHOOSE k \in 1..Len(owners) : owners[k] = owner

Descending(owners) ==
    \A k \in 1..(Len(owners) - 1) : owners[k].levels >= owners[k + 1].levels

PermutationOf(owners, others) ==
    /\ Len(owners) = Len(others)
    /\ {owners[k] : k \in 1..Len(owners)}
          = {others[k] : k \in 1..Len(others)}

\* owners with equal levels stand in the order in which they were read
TiesInInputOrder(owners, read) ==
    \A a \in 1..Len(owners) : \A b \in (a + 1)..Len(owners) :
        owners[a].levels = owners[b].levels
            => PositionIn(read, owners[a]) < PositionIn(read, owners[b])

\* C10 (as claimed): before allocation the owners are ordered descending by
\* levels and owners with equal levels keep their relative order from the
\* input.
C10_StableTies ==
    pc = "fixup" =>
        /\ Descending(original_owners)
        /\ PermutationOf(original_owners, Collected)
        /\ TiesInInputOrder(original_owners, Collected)

\* C10 (amended): before allocation the owners are the owners read, ordered
\* descending by levels (owners with equal levels in any order), and both
\* output blocks list the owners in that order.
C10_DescendingOrder ==
    /\ pc = "fixup" =>
          /\ Descending(original_owners)
          /\ PermutationOf(original_owners, Collected)
    /\ SplitWritten =>
          \A j \in {5, 6} :
              \A k \in 1..(Len(out_file[j].add_ownership) - 1) :
                  InputBlock(out_file[j].add_ownership[k].country).levels
                      >= InputBlock(out_file[j].add_ownership[k + 1].country)
                             .levels

\* C10 witness: the owners of a building are sorted, two of them with equal
\* levels and one with more.
C10_Witness ==
    /\ pc = "fixup"
    /\ \E a, b \in 1..Len(original_owners) :
          /\ a # b
          /\ original_owners[a].levels = original_owners[b].levels
          /\ OwnedByBuilding(original_owners[a])
          /\ ~OwnedByBuilding(original_owners[b])
    /\ \E a, b \in 1..Len(original_owners) :
          original_owners[a].levels > original_owners[b].levels

====
